---- MODULE Spec2Model ----
(***************************************************************************)
(* Stepper component family of lib/components/ui/stepper.tsx.              *)
(*                                                                         *)
(* The host application owns the current step (a useState cell in the      *)
(* Default story) and passes it to <Stepper> as the value prop.  Stepper   *)
(* distributes its props through StepperContext; every descendant is a     *)
(* function of that context (and of the StepperItemContext of the item it  *)
(* sits in).  The only way back to the host is the click handler of        *)
(* StepperTrigger.                                                         *)
(***************************************************************************)
EXTENDS Integers, Sequences, FiniteSets, TLC

\* ------------------------------------------------------------------ bounds
\* Number of <StepperItem> under the Stepper; item i is declared step={i},
\* as the stories do with step={index + 1}.
NumItems == 4
\* Number of <StepperContent> panels under the Stepper.
NumPanels == 2

ItemIds == 1 .. NumItems
\* Values the host may pass as the value prop: below, inside and above the
\* range of declared steps (the Stepper validates nothing).
Values == -1 .. (NumItems + 1)
PanelIds == 1 .. NumPanels
\* The value props of the panels; two panels may name the same step.  The
\* panels are independent of each other, so they are listed in ascending order.
PanelConfigs ==
  {f \in [PanelIds -> 1 .. NumPanels] :
     \A a, b \in PanelIds : a <= b => f[a] <= f[b]}
\* Where a click can land: the trigger of an item, or (0) a trigger placed
\* outside every StepperItem.
Targets == 0 .. NumItems

\* ------------------------------------------------------ JavaScript values
\* Props are JavaScript values; they are written here as strings so that a
\* prop that was not passed can be told from one passed as false.
Unset == "unset"      \* a prop that was not passed (undefined)
JsTrue == "true"
JsFalse == "false"

\* JavaScript truthiness, as used by `a && b`, `if (a)` and `a || b`.
Truthy(x) == x \notin {Unset, JsFalse}

\* A destructuring default: `name = d` in a parameter list.
Default(x, d) == IF x = Unset THEN d ELSE x

Bools == {Unset, JsTrue, JsFalse}
\* What the host passes for the presentational props: nothing (the default
\* applies: horizontal, md, green) or a value other than the default.
Variants == {Unset, "vertical"}
Sizes == {Unset, "sm", "lg"}
Colors == {Unset, "orange"}
\* The indicators prop: not passed, or an object whose two keys are optional.
\* A key holds an element to render, or false when the host wrote it as
\* `condition && <Icon />` and the condition is off.
IndicatorSets ==
  {[given |-> FALSE, completed |-> Unset, loading |-> Unset]}
    \cup [given : {TRUE}, completed : {Unset, JsFalse, "completedIcon"},
          loading : {Unset, JsFalse, "loadingIcon"}]
\* What the host passes as onValueChange: nothing, its state setter (the
\* Default story), or a handler that only records the call (the story's
\* argTypes action).
Handlers == {Unset, "setCurrentStep", "action"}
BadgeStatuses == {Unset, "default", "success", "warning", "error", "inactive"}
LoadingFlags == Bools
\* totalSteps?: number, absent or a count.
NoTotal == [given |-> FALSE, n |-> 0]
TotalStepsChoices == {NoTotal} \cup [given : {TRUE}, n : {2, NumItems}]

\* StepperItemProps.disabled?: boolean, absent or true.
ItemProps == [disabled : {Unset, JsTrue}]

TriggerProps ==
  [asChild : {Unset, JsTrue}, disabled : Bools, onClick : {Unset, "onClick"}]

\* A rendered element is a record with a tag; a component that returns null
\* renders NullElement.
NullElement == [tag |-> "null"]

\* --------------------------------------------------------------- variables
VARIABLES
  host,    \* the host application: the state and props it renders Stepper with
  ctx,     \* the StepperContext value distributed by the last render
  tree,    \* what the descendants rendered in the last render
  event,   \* the last step taken: a click on a trigger, a flush, a host render
  field,   \* an Input or Textarea: its props, hook state, element and DOM node
  page     \* document.body's inline style and the bottom sheets of the page

vars == <<host, ctx, tree, event, field, page>>

\* A component that is not on the page.
NotRendered == [mounted |-> FALSE]

\* ------------------------------------------------------------------ Stepper
\* A Stepper that validates the value: it raises a value below 1 to 1.
StepperClamped(p) ==
  [ value          |-> IF p.currentStep < 1 THEN 1 ELSE p.currentStep,
    onValueChange  |-> p.onValueChange,
    variant        |-> Default(p.variant, "horizontal"),
    indicators     |-> p.indicators,
    clickable      |-> Default(p.clickable, JsFalse),
    totalSteps     |-> p.totalSteps,
    size           |-> Default(p.size, "md"),
    showConnector  |-> Default(p.showConnector, JsTrue),
    completedColor |-> Default(p.completedColor, "green") ]


\* A Stepper that keeps the value within 1 .. totalSteps when it has one.
StepperWithinTotal(p) ==
  [ value          |-> IF ~p.totalSteps.given THEN p.currentStep
                       ELSE IF p.currentStep > p.totalSteps.n
                         THEN p.totalSteps.n
                       ELSE IF p.currentStep < 1 THEN 1
                       ELSE p.currentStep,
    onValueChange  |-> p.onValueChange,
    variant        |-> Default(p.variant, "horizontal"),
    indicators     |-> p.indicators,
    clickable      |-> Default(p.clickable, JsFalse),
    totalSteps     |-> p.totalSteps,
    size           |-> Default(p.size, "md"),
    showConnector  |-> Default(p.showConnector, JsTrue),
    completedColor |-> Default(p.completedColor, "green") ]

\* A Stepper that distributes the horizontal orientation whatever it is
\* passed.
StepperHorizontalOnly(p) ==
  [ value          |-> p.currentStep,
    onValueChange  |-> p.onValueChange,
    variant        |-> "horizontal",
    indicators     |-> p.indicators,
    clickable      |-> Default(p.clickable, JsFalse),
    totalSteps     |-> p.totalSteps,
    size           |-> Default(p.size, "md"),
    showConnector  |-> Default(p.showConnector, JsTrue),
    completedColor |-> Default(p.completedColor, "green") ]

\* A Stepper whose clickable defaults to true.
StepperClickableByDefault(p) ==
  [ value          |-> p.currentStep,
    onValueChange  |-> p.onValueChange,
    variant        |-> Default(p.variant, "horizontal"),
    indicators     |-> p.indicators,
    clickable      |-> Default(p.clickable, JsTrue),
    totalSteps     |-> p.totalSteps,
    size           |-> Default(p.size, "md"),
    showConnector  |-> Default(p.showConnector, JsTrue),
    completedColor |-> Default(p.completedColor, "green") ]

\* The props, with their defaults, become the context value.
Stepper(p) ==
  [ value          |-> p.currentStep,
    onValueChange  |-> p.onValueChange,
    variant        |-> Default(p.variant, "horizontal"),
    indicators     |-> p.indicators,
    clickable      |-> Default(p.clickable, JsFalse),
    totalSteps     |-> p.totalSteps,
    size           |-> Default(p.size, "md"),
    showConnector  |-> Default(p.showConnector, JsTrue),
    completedColor |-> Default(p.completedColor, "green") ]

\* ------------------------------------------------------------------ useMemo
\* A memo cell of a mounted component: the dependency list and the value of
\* the render that last computed it.  A component that mounts has none.
NoMemo == [set |-> FALSE, deps |-> <<>>, val |-> Unset]

\* React.useMemo(factory, deps): the factory's result is `fresh`; it is used
\* only when there is no cell yet or a dependency changed.
UseMemo(prev, deps, fresh) ==
  IF prev.set /\ prev.deps = deps THEN prev
  ELSE [set |-> TRUE, deps |-> deps, val |-> fresh]

\* ------------------------------------------------------------- StepperItem
\* A slip in the comparisons: a step equal to the value counts as completed.
DeriveStateCompletedFirst(step, value) ==
  IF step <= value THEN "completed"
  ELSE IF step = value THEN "active"
  ELSE "inactive"


\* The comparison turned round: the steps above the value count as done.
DeriveStateReversed(step, value) ==
  IF step = value THEN "active"
  ELSE IF step > value THEN "completed"
  ELSE "inactive"

\* The factory of the item's useMemo.
DeriveState(step, value) ==
  IF step = value THEN "active"
  ELSE IF step < value THEN "completed"
  ELSE "inactive"

\* StepperItemContext outside every StepperItem: createContext(null).
NoStepContext == [isNull |-> TRUE, state |-> Unset, step |-> 0]

\* `step?.state || "inactive"` in the item's descendants.
StateOf(sc) == IF sc.isNull THEN "inactive" ELSE sc.state

\* A dependency list that leaves out the value.
ItemStateStaleDeps(c, step, prevMemo) ==
  UseMemo(prevMemo, <<step>>, DeriveState(step, c.value))

\* A dependency list that leaves out the step.
ItemStateValueDepOnly(c, step, prevMemo) ==
  UseMemo(prevMemo, <<c.value>>, DeriveState(step, c.value))

\* The item's state is memoised on [step, value]; the item publishes
\* { state, step } to its descendants and shows state as data-state.
ItemState(c, step, prevMemo) ==
  UseMemo(prevMemo, <<step, c.value>>, DeriveState(step, c.value))

\* -------------------------------------------------------- StepperIndicator
\* `indicators?.loading`, `indicators?.completed`
OptLoading(ind) == IF ind.given THEN ind.loading ELSE Unset
OptCompleted(ind) == IF ind.given THEN ind.completed ELSE Unset

\* The two overrides tested in the other order.
IndicatorContentCompletedFirst(c, state, loading) ==
  IF state = "completed" /\ Truthy(OptCompleted(c.indicators))
    THEN c.indicators.completed
  ELSE IF Truthy(loading) /\ Truthy(OptLoading(c.indicators))
    THEN c.indicators.loading
  ELSE "children"

\* The factory of the content memo.
IndicatorContent(c, state, loading) ==
  IF Truthy(loading) /\ Truthy(OptLoading(c.indicators))
    THEN c.indicators.loading
  ELSE IF state = "completed" /\ Truthy(OptCompleted(c.indicators))
    THEN c.indicators.completed
  ELSE "children"

\* The factory of the completedColorClasses memo of the indicator.
IndicatorColorClasses(state, completedColor) ==
  IF state # "completed" THEN ""
  ELSE IF completedColor = "orange"
    THEN "border-ds-orange-500 bg-ds-orange-500 text-white"
  ELSE "border-ds-green-main bg-ds-green-main text-white"

StepperIndicator(c, sc, loading, prev) ==
  LET state == StateOf(sc)
      content == UseMemo(prev.contentMemo,
                         <<state, loading, c.indicators, "children">>,
                         IndicatorContent(c, state, loading))
      color == UseMemo(prev.colorMemo, <<state, c.completedColor>>,
                       IndicatorColorClasses(state, c.completedColor))
  IN [ contentMemo |-> content,
       colorMemo |-> color,
       el |-> [ tag |-> "div", dataState |-> state, size |-> c.size,
                completedColorClasses |-> color.val, content |-> content.val ] ]

\* ------------------------------------------------------------ StepperBadge
\* A mapping that pairs each state with the status of the same name.
StepperBadgeByName(sc, statusProp) ==
  LET status == Default(statusProp, "default")
      state == StateOf(sc)
      shouldShow == \/ (state = "active" /\ status = "warning")
                    \/ (state = "completed" /\ status = "success")
                    \/ (state = "inactive" /\ status = "inactive")
  IN IF ~shouldShow THEN NullElement
     ELSE [ tag |-> "Badge", status |-> status,
            className |-> IF state = "inactive" THEN "bg-gray-100 text-gray-400"
                          ELSE "" ]


StepperBadge(sc, statusProp) ==
  LET status == Default(statusProp, "default")
      state == StateOf(sc)
      shouldShow == \/ (state = "active" /\ status = "warning")
                    \/ (state = "completed" /\ status = "success")
                    \/ (state = "inactive" /\ status = "default")
  IN IF ~shouldShow THEN NullElement
     ELSE [ tag |-> "Badge", status |-> status,
            className |-> IF state = "inactive" THEN "bg-gray-100 text-gray-400"
                          ELSE "" ]

\* -------------------------------------------------------- StepperSeparator
\* The factory of the completedColorClasses memo of the separator.
SeparatorColorClasses(state, completedColor) ==
  IF state # "completed" THEN ""
  ELSE IF completedColor = "orange" THEN "bg-ds-orange-500"
  ELSE "bg-ds-green-main"

\* A separator that keeps an empty element in the layout when the connector
\* is off.
StepperSeparatorPlaceholder(c, sc, prev) ==
  LET state == StateOf(sc)
      color == UseMemo(prev.memo, <<state, c.completedColor>>,
                       SeparatorColorClasses(state, c.completedColor))
  IN [ memo |-> color,
       hooks |-> <<"useContext", "useContext", "useMemo">>,
       el |-> [ tag |-> "div", dataState |-> state, variant |-> c.variant,
                size |-> c.size,
                completedColorClasses |->
                  IF Truthy(c.showConnector) THEN color.val ELSE "invisible" ] ]

\* The early return comes after the two useContext calls and before useMemo;
\* hooks lists the hooks this render ran, and a render that ran no useMemo
\* leaves no memo cell behind.
StepperSeparator(c, sc, prev) ==
  LET state == StateOf(sc) IN
  IF ~Truthy(c.showConnector)
    THEN [ memo |-> NoMemo,
           hooks |-> <<"useContext", "useContext">>,
           el |-> NullElement ]
  ELSE LET color == UseMemo(prev.memo, <<state, c.completedColor>>,
                            SeparatorColorClasses(state, c.completedColor))
       IN [ memo |-> color,
            hooks |-> <<"useContext", "useContext", "useMemo">>,
            el |-> [ tag |-> "div", dataState |-> state, variant |-> c.variant,
                     size |-> c.size, completedColorClasses |-> color.val ] ]

\* ---------------------------------------------------------- StepperContent
\* A panel that stays mounted and is only hidden when it does not match.
StepperContentHidden(c, stepValue) ==
  IF c.value # stepValue THEN [tag |-> "div", children |-> "hidden"]
  ELSE [tag |-> "div", children |-> "children"]

\* A panel that shows every step up to the current one.
StepperContentUpTo(c, stepValue) ==
  IF c.value < stepValue THEN NullElement
  ELSE [tag |-> "div", children |-> "children"]


StepperContent(c, stepValue) ==
  IF c.value # stepValue THEN NullElement
  ELSE [tag |-> "div", children |-> "children"]

\* ---------------------------------------------------------- StepperTrigger
\* A trigger built from a div with a click handler instead of a button.
StepperTriggerDiv(c, sc, tp) ==
  IF Truthy(tp.asChild)
    THEN [tag |-> "div", onClick |-> Unset, disabled |-> Unset]
  ELSE [ tag |-> "div", onClick |-> "handleClick",
         disabled |-> IF tp.disabled # Unset THEN tp.disabled
                      ELSE IF Truthy(c.clickable) THEN JsFalse ELSE JsTrue ]

\* A trigger whose asChild wrapper keeps the click handler.
StepperTriggerAsChildHandler(c, sc, tp) ==
  IF Truthy(tp.asChild)
    THEN [tag |-> "div", onClick |-> "handleClick", disabled |-> Unset]
  ELSE [ tag |-> "button", onClick |-> "handleClick",
         disabled |-> IF tp.disabled # Unset THEN tp.disabled
                      ELSE IF Truthy(c.clickable) THEN JsFalse ELSE JsTrue ]

\* With asChild the trigger is a plain div around its children: no handler,
\* no ref, no other prop.  Otherwise it is a button whose disabled attribute
\* is !clickable unless the caller's own props, spread last, replace it.
StepperTrigger(c, sc, tp) ==
  IF Truthy(tp.asChild)
    THEN [tag |-> "div", onClick |-> Unset, disabled |-> Unset]
  ELSE [ tag |-> "button", onClick |-> "handleClick",
         disabled |-> IF tp.disabled # Unset THEN tp.disabled
                      ELSE IF Truthy(c.clickable) THEN JsFalse ELSE JsTrue ]

\* Calling f(arg): a call of something that is not a function throws.
Invoke(name, f, arg) ==
  IF f = Unset THEN [calls |-> <<>>, threw |-> TRUE]
  ELSE [calls |-> << <<name, arg>> >>, threw |-> FALSE]

NoCall == [calls |-> <<>>, threw |-> FALSE]

\* One statement after another: the second runs unless the first threw.
Then(a, b) ==
  IF a.threw THEN a ELSE [calls |-> a.calls \o b.calls, threw |-> b.threw]

\* A handler that leaves the gating to the button's disabled attribute.
handleClickUngated(c, sc, tp) ==
  Then(IF ~sc.isNull /\ Truthy(c.onValueChange)
         THEN Invoke("onValueChange", c.onValueChange, sc.step)
         ELSE NoCall,
       IF tp.onClick # Unset THEN Invoke("onClick", tp.onClick, "event")
         ELSE NoCall)

\* A handler that reports the current value instead of the item's step.
handleClickCurrentValue(c, sc, tp) ==
  Then(IF Truthy(c.clickable) /\ ~sc.isNull /\ Truthy(c.onValueChange)
         THEN Invoke("onValueChange", c.onValueChange, c.value)
         ELSE NoCall,
       IF tp.onClick # Unset THEN Invoke("onClick", tp.onClick, "event")
         ELSE NoCall)

\* A handler that calls onValueChange without testing that the host passed
\* one.
handleClickUnchecked(c, sc, tp) ==
  Then(IF Truthy(c.clickable) /\ ~sc.isNull
         THEN Invoke("onValueChange", c.onValueChange, sc.step)
         ELSE NoCall,
       IF tp.onClick # Unset THEN Invoke("onClick", tp.onClick, "event")
         ELSE NoCall)

\* A handler that reports an accepted click twice.
handleClickTwice(c, sc, tp) ==
  Then(IF Truthy(c.clickable) /\ ~sc.isNull /\ Truthy(c.onValueChange)
         THEN Then(Invoke("onValueChange", c.onValueChange, sc.step),
                   Invoke("onValueChange", c.onValueChange, sc.step))
         ELSE NoCall,
       IF tp.onClick # Unset THEN Invoke("onClick", tp.onClick, "event")
         ELSE NoCall)

\* A handler that calls the caller's onClick before it reports the step.
handleClickOnClickFirst(c, sc, tp) ==
  Then(IF tp.onClick # Unset THEN Invoke("onClick", tp.onClick, "event")
         ELSE NoCall,
       IF Truthy(c.clickable) /\ ~sc.isNull /\ Truthy(c.onValueChange)
         THEN Invoke("onValueChange", c.onValueChange, sc.step)
         ELSE NoCall)

\* handleClick: the calls it makes, in order.  The host's onValueChange is
\* logged as <<"onValueChange", step>>, the caller's onClick as
\* <<"onClick", "event">>.
handleClick(c, sc, tp) ==
  Then(IF Truthy(c.clickable) /\ ~sc.isNull /\ Truthy(c.onValueChange)
         THEN Invoke("onValueChange", c.onValueChange, sc.step)
         ELSE NoCall,
       IF tp.onClick # Unset THEN Invoke("onClick", tp.onClick, "event")
         ELSE NoCall)

\* The browser dispatches a click to the element's handler unless the element
\* is a disabled button or has no handler.
Delivered(el) ==
  el.onClick # Unset /\ ~(el.tag = "button" /\ Truthy(el.disabled))

\* The primary activation keys.  A native button that has the focus turns
\* Enter and Space into a click of its own; a disabled button takes no focus,
\* and an element that is not a button has no such behaviour.
Keys == {"Enter", "Space"}

KeyDelivered(el, key) ==
  el.tag = "button" /\ key \in Keys /\ Delivered(el)

\* ------------------------------------------------------------ the rendering
\* What a component that mounts finds in place of its previous render.
MountItem ==
  [ memo |-> NoMemo,
    indicator |-> [l \in LoadingFlags |->
                     [contentMemo |-> NoMemo, colorMemo |-> NoMemo]],
    separator |-> [memo |-> NoMemo] ]

MountTree == [items |-> [i \in ItemIds |-> MountItem]]

\* The context an item publishes to its descendants.
StepContext(item) == [isNull |-> FALSE, state |-> item.state, step |-> item.step]

\* One StepperItem and what is inside it.  Every item holds an indicator for
\* each loading flag, a badge of each status, and a separator, so that one
\* render shows each component on each of its inputs.
StepperItemWithContext(c, step, prev) ==
  LET memo == ItemState(c, step, prev.memo)
      sc == [isNull |-> FALSE, state |-> memo.val, step |-> step]
  IN [ memo |-> memo,
       state |-> memo.val,
       step |-> step,
       dataState |-> memo.val,
       indicator |-> [l \in LoadingFlags |->
                        StepperIndicator(c, sc, l, prev.indicator[l])],
       badge |-> [b \in BadgeStatuses |-> StepperBadge(sc, b)],
       separator |-> StepperSeparator(c, sc, prev.separator) ]

\* The div of a StepperItem given the props ip: the item takes className,
\* step and children for itself and spreads the rest, disabled included,
\* onto the div; its context stays { state, step }.
StepperItemDiv(item, ip) ==
  [tag |-> "div", dataState |-> item.dataState, disabled |-> ip.disabled]

\* The render pass below <Stepper>: the host's items and panels, each read
\* against the context value c.
RenderTree(c, h, prev) ==
  [ items |-> [i \in ItemIds |->
                 StepperItemWithContext(c, h.steps[i], prev.items[i])],
    panels |-> [j \in PanelIds |-> StepperContent(c, h.panels[j])] ]

\* -------------------------------------------------------------------- host
\* The host's onValueChange: the Default story passes its state setter, so
\* the call replaces currentStep; a handler that only records does nothing.
HostOnValueChange(h, k) ==
  IF h.onValueChange = "setCurrentStep" THEN [h EXCEPT !.currentStep = k]
  ELSE h

\* The host after the calls a click made, in order.
RECURSIVE HostAfter(_, _)
HostAfter(h, calls) ==
  IF calls = <<>> THEN h
  ELSE HostAfter(IF Head(calls)[1] = "onValueChange"
                   THEN HostOnValueChange(h, Head(calls)[2])
                   ELSE h,
                 Tail(calls))

\* The story's args: value 2, clickable false, the rest at their defaults.
StoryHost(handler) ==
  [ currentStep    |-> 2,
    onValueChange  |-> handler,
    clickable      |-> JsFalse,
    variant        |-> Unset,
    size           |-> Unset,
    showConnector  |-> Unset,
    completedColor |-> Unset,
    indicators     |-> [given |-> FALSE, completed |-> Unset, loading |-> Unset],
    totalSteps     |-> NoTotal,
    steps          |-> [i \in ItemIds |-> i],
    panels         |-> [j \in PanelIds |-> j] ]

\* A state change of the host that React has not rendered yet.
Dirty == host.currentStep # ctx.value

Mounted(h) ==
  /\ host = h
  /\ ctx = Stepper(h)
  /\ tree = RenderTree(Stepper(h), h, MountTree)
  /\ event = [kind |-> "mount"]
  /\ field = NotRendered
  /\ page = NotRendered

Init == \E handler \in Handlers : Mounted(StoryHost(handler))

\* The host renders <Stepper> again with the props h.
Rerender(h, kind) ==
  /\ host' = h
  /\ ctx' = Stepper(h)
  /\ tree' = RenderTree(Stepper(h), h, tree)
  /\ event' = [kind |-> kind]
  /\ UNCHANGED <<field, page>>

\* ----------------------------------------------------------------- actions
\* The user clicks where the trigger of target t is, the trigger having the
\* props tp.  React has rendered every earlier state change by then.
Click(t, tp) ==
  /\ ~Dirty
  /\ LET sc == IF t \in ItemIds THEN StepContext(tree.items[t]) ELSE NoStepContext
         el == StepperTrigger(ctx, sc, tp)
         r == IF Delivered(el) THEN handleClick(ctx, sc, tp) ELSE NoCall
     IN /\ host' = HostAfter(host, r.calls)
        /\ event' = [ kind |-> "click", target |-> t, trigger |-> tp,
                      element |-> el, delivered |-> Delivered(el),
                      calls |-> r.calls, threw |-> r.threw ]
  /\ UNCHANGED <<ctx, tree, field, page>>

\* The user presses an activation key while the focus is where the trigger
\* of target t is.
KeyPress(t, tp, key) ==
  /\ ~Dirty
  /\ LET sc == IF t \in ItemIds THEN StepContext(tree.items[t]) ELSE NoStepContext
         el == StepperTrigger(ctx, sc, tp)
         r == IF KeyDelivered(el, key) THEN handleClick(ctx, sc, tp) ELSE NoCall
     IN /\ host' = HostAfter(host, r.calls)
        /\ event' = [ kind |-> "key", key |-> key, target |-> t,
                      trigger |-> tp, element |-> el,
                      delivered |-> KeyDelivered(el, key),
                      calls |-> r.calls, threw |-> r.threw ]
  /\ UNCHANGED <<ctx, tree, field, page>>

\* The user clicks the trigger inside item t, the StepperItem having the
\* props ip and the trigger the props tp.
ClickInItem(t, tp, ip) ==
  /\ ~Dirty
  /\ LET sc == StepContext(tree.items[t])
         el == StepperTrigger(ctx, sc, tp)
         r == IF Delivered(el) THEN handleClick(ctx, sc, tp) ELSE NoCall
     IN /\ host' = HostAfter(host, r.calls)
        /\ event' = [ kind |-> "click", target |-> t, trigger |-> tp,
                      item |-> ip,
                      itemElement |-> StepperItemDiv(tree.items[t], ip),
                      element |-> el, delivered |-> Delivered(el),
                      calls |-> r.calls, threw |-> r.threw ]
  /\ UNCHANGED <<ctx, tree, field, page>>

\* React renders the state change a click handler made.
Flush ==
  /\ Dirty
  /\ Rerender(host, "flush")

\* The host passes another value (the story's effect on args.value).
HostSetValue(v) ==
  /\ ~Dirty
  /\ v # host.currentStep
  /\ Rerender([host EXCEPT !.currentStep = v], "render")

HostSetClickable(b) ==
  /\ ~Dirty
  /\ b # host.clickable
  /\ Rerender([host EXCEPT !.clickable = b], "render")

HostSetShowConnector(b) ==
  /\ ~Dirty
  /\ b # host.showConnector
  /\ Rerender([host EXCEPT !.showConnector = b], "render")

HostSetCompletedColor(x) ==
  /\ ~Dirty
  /\ x # host.completedColor
  /\ Rerender([host EXCEPT !.completedColor = x], "render")

HostSetVariant(x) ==
  /\ ~Dirty
  /\ x # host.variant
  /\ Rerender([host EXCEPT !.variant = x], "render")

HostSetSize(x) ==
  /\ ~Dirty
  /\ x # host.size
  /\ Rerender([host EXCEPT !.size = x], "render")

HostSetIndicators(x) ==
  /\ ~Dirty
  /\ x # host.indicators
  /\ Rerender([host EXCEPT !.indicators = x], "render")

HostSetPanels(x) ==
  /\ ~Dirty
  /\ x # host.panels
  /\ Rerender([host EXCEPT !.panels = x], "render")

\* The host gives item i another step number, one next to its position.
HostSetStep(i, k) ==
  /\ ~Dirty
  /\ k # host.steps[i]
  /\ Rerender([host EXCEPT !.steps[i] = k], "render")

\* The host renders again with the props it passed before.
HostRenderAgain ==
  /\ ~Dirty
  /\ Rerender(host, "render")

HostSetTotalSteps(t) ==
  /\ ~Dirty
  /\ t # host.totalSteps
  /\ Rerender([host EXCEPT !.totalSteps = t], "render")

\* ---------------------------------------------------------- specifications
\* The stepper in use: clicks, the renders they cause, and a host that
\* changes the value and the navigation policy.
Next ==
  \/ \E t \in Targets, tp \in TriggerProps : Click(t, tp)
  \/ Flush
  \/ \E v \in Values : HostSetValue(v)
  \/ \E b \in Bools : HostSetClickable(b)

Spec == Init /\ [][Next]_vars

\* React always carries out the render a state change scheduled.
SpecLive == Spec /\ WF_vars(Flush)

\* The rendering alone: the host renders the stepper with every combination
\* of props, and no one clicks.
InitRender == Mounted(StoryHost("setCurrentStep"))

NextRender ==
  \/ \E v \in Values : HostSetValue(v)
  \/ \E b \in Bools : HostSetShowConnector(b)
  \/ \E x \in Colors : HostSetCompletedColor(x)
  \/ \E x \in Variants : HostSetVariant(x)
  \/ \E x \in Sizes : HostSetSize(x)
  \/ \E x \in IndicatorSets : HostSetIndicators(x)
  \/ \E x \in PanelConfigs : HostSetPanels(x)

SpecRender == InitRender /\ [][NextRender]_vars

\* The items under a host that changes the value and renumbers the steps.
StepChoices(i) == (i - 1) .. (i + 1)

NextSteps ==
  \/ \E v \in Values : HostSetValue(v)
  \/ \E i \in ItemIds : \E k \in StepChoices(i) : HostSetStep(i, k)
  \/ HostRenderAgain

SpecSteps == InitRender /\ [][NextSteps]_vars

\* The stepper in use under a host that also changes totalSteps.
NextTotal ==
  \/ Next
  \/ \E t \in TotalStepsChoices : HostSetTotalSteps(t)

SpecTotal == Init /\ [][NextTotal]_vars

\* The stepper used from the keyboard: key activations, the renders they
\* cause, and a host that changes the navigation policy.
NextKeys ==
  \/ \E t \in Targets, tp \in TriggerProps, key \in Keys : KeyPress(t, tp, key)
  \/ Flush
  \/ \E b \in Bools : HostSetClickable(b)

SpecKeys == Init /\ [][NextKeys]_vars

\* The stepper in use with items that carry props of their own.
NextItems ==
  \/ \E t \in ItemIds, tp \in TriggerProps, ip \in ItemProps :
       ClickInItem(t, tp, ip)
  \/ Flush
  \/ \E b \in Bools : HostSetClickable(b)

SpecItems == Init /\ [][NextItems]_vars

\* ------------------------------------------------------- Input and Textarea
\* The two components differ in what they take out of their props: Input
\* takes onFocus and onBlur and leaves onChange in the rest, Textarea leaves
\* all three in the rest.  Both spread the rest onto the element after
\* their own handlers.
FieldKinds == {"input", "textarea"}

\* What the user may have typed.
Texts == {"", "a", "ab"}

\* The caller's props: the handlers it passes or not, the placeholder, and
\* the defaultValue of an uncontrolled field.
FieldProps ==
  [ onChange : {Unset, "onChange"}, onFocus : {Unset, "onFocus"},
    onBlur : {Unset, "onBlur"}, placeholder : {"hint"},
    defaultValue : {Unset, "a"} ]

RestProps(kind) ==
  IF kind = "input" THEN {"onChange"} ELSE {"onFocus", "onBlur", "onChange"}

\* `name={own} {...props}`: a prop of that name in the rest replaces own.
Attached(kind, p, name, own) ==
  IF name \in RestProps(kind) /\ p[name] # Unset THEN p[name] ELSE own

\* A field that passes the placeholder in every state.
FieldElementPlaceholderAlways(kind, p, isFocused, hasValue) ==
  [ tag |-> kind,
    placeholder |-> p.placeholder,
    labelFloating |-> isFocused \/ hasValue,
    onFocus |-> Attached(kind, p, "onFocus", "handleFocus"),
    onBlur |-> Attached(kind, p, "onBlur", "handleBlur"),
    onChange |-> Attached(kind, p, "onChange", "handleChange") ]

\* The element of one render: isFloating = isFocused || hasValue decides the
\* placeholder and the position of the label.
FieldElement(kind, p, isFocused, hasValue) ==
  [ tag |-> kind,
    placeholder |-> IF isFocused \/ hasValue THEN p.placeholder ELSE "",
    labelFloating |-> isFocused \/ hasValue,
    onFocus |-> Attached(kind, p, "onFocus", "handleFocus"),
    onBlur |-> Attached(kind, p, "onBlur", "handleBlur"),
    onChange |-> Attached(kind, p, "onChange", "handleChange") ]

JsBool(b) == IF b THEN JsTrue ELSE JsFalse

\* `f?.(e)`
OptInvoke(name, f, arg) == IF f = Unset THEN NoCall ELSE Invoke(name, f, arg)

handleFocus(p) ==
  Then([calls |-> << <<"setIsFocused", JsTrue>> >>, threw |-> FALSE],
       OptInvoke("onFocus", p.onFocus, "event"))

handleBlur(p) ==
  Then([calls |-> << <<"setIsFocused", JsFalse>> >>, threw |-> FALSE],
       OptInvoke("onBlur", p.onBlur, "event"))

handleChange(p, text) ==
  Then([calls |-> << <<"setHasValue", JsBool(text # "")>> >>, threw |-> FALSE],
       OptInvoke("onChange", p.onChange, text))

\* The event reaches the handler the element carries: the component's own,
\* or the caller's function put in its place by the spread.
Dispatch(handler, p, arg) ==
  IF handler = "handleFocus" THEN handleFocus(p)
  ELSE IF handler = "handleBlur" THEN handleBlur(p)
  ELSE IF handler = "handleChange" THEN handleChange(p, arg)
  ELSE Invoke(handler, handler, arg)

\* The state setters among calls, applied in order to the hook state st.
RECURSIVE Applied(_, _)
Applied(st, calls) ==
  IF calls = <<>> THEN st
  ELSE Applied(IF Head(calls)[1] = "setIsFocused"
                 THEN [st EXCEPT !.isFocused = (Head(calls)[2] = JsTrue)]
               ELSE IF Head(calls)[1] = "setHasValue"
                 THEN [st EXCEPT !.hasValue = (Head(calls)[2] = JsTrue)]
               ELSE st,
               Tail(calls))

\* A render and the effects after it: the effect without dependencies reads
\* the node's value and corrects hasValue, which renders once more.
Rendered(f) ==
  LET actualHasValue == f.value # ""
  IN [f EXCEPT !.hasValue = actualHasValue,
               !.el = FieldElement(f.kind, f.props, f.isFocused, actualHasValue)]

\* The field after a handler made the calls of r: React renders again only
\* when a state setter changed the state.
AfterHandler(f, r) ==
  LET st == Applied(f, r.calls)
  IN IF st.isFocused = f.isFocused /\ st.hasValue = f.hasValue THEN f
     ELSE Rendered(st)

\* The mount: useState(false) twice, the node takes the defaultValue, and
\* the effects of the first render set hasValue from it.
MountField(kind, p) ==
  Rendered([ mounted |-> TRUE, kind |-> kind, props |-> p,
             value |-> IF p.defaultValue = Unset THEN "" ELSE p.defaultValue,
             focused |-> FALSE, isFocused |-> FALSE, hasValue |-> FALSE,
             el |-> FieldElement(kind, p, FALSE, FALSE) ])

InitField ==
  /\ \E kind \in FieldKinds, p \in FieldProps : field = MountField(kind, p)
  /\ event = [kind |-> "mount"]
  /\ host = NotRendered
  /\ ctx = NotRendered
  /\ tree = NotRendered
  /\ page = NotRendered

\* The user moves the focus into the field.
FieldFocus ==
  /\ ~field.focused
  /\ LET r == Dispatch(field.el.onFocus, field.props, "event")
     IN /\ field' = AfterHandler([field EXCEPT !.focused = TRUE], r)
        /\ event' = [kind |-> "focus", text |-> field.value,
                      calls |-> r.calls, threw |-> r.threw]
  /\ UNCHANGED <<host, ctx, tree, page>>

\* The user moves the focus away.
FieldBlur ==
  /\ field.focused
  /\ LET r == Dispatch(field.el.onBlur, field.props, "event")
     IN /\ field' = AfterHandler([field EXCEPT !.focused = FALSE], r)
        /\ event' = [kind |-> "blur", text |-> field.value,
                      calls |-> r.calls, threw |-> r.threw]
  /\ UNCHANGED <<host, ctx, tree, page>>

\* The user edits the text of the focused field.
FieldChange(text) ==
  /\ field.focused
  /\ text # field.value
  /\ LET r == Dispatch(field.el.onChange, field.props, text)
     IN /\ field' = AfterHandler([field EXCEPT !.value = text], r)
        /\ event' = [kind |-> "change", text |-> text,
                      calls |-> r.calls, threw |-> r.threw]
  /\ UNCHANGED <<host, ctx, tree, page>>

\* The parent renders the field again with the same props.
FieldRerender ==
  /\ field' = Rendered(field)
  /\ event' = [kind |-> "render", text |-> field.value,
                calls |-> <<>>, threw |-> FALSE]
  /\ UNCHANGED <<host, ctx, tree, page>>

NextField ==
  \/ FieldFocus
  \/ FieldBlur
  \/ \E text \in Texts : FieldChange(text)
  \/ FieldRerender

SpecField == InitField /\ [][NextField]_vars

\* ------------------------------------------------------- BottomSheetContent
NumSheets == 2
SheetIds == 1 .. NumSheets

\* document.body.style before any sheet: nothing, or what the page set.
BodyStyles == [overflow : {"", "scroll"}, paddingRight : {"", "8px"}]

\* window.innerWidth - document.documentElement.clientWidth > 0: the window
\* has a scrollbar that takes room, and the body is not clipped already.
ScrollbarShown(pg, body) == pg.scrollbar /\ body.overflow # "hidden"

lockBodyScroll(pg, body, isOpen) ==
  IF isOpen
    THEN [ overflow |-> "hidden",
           paddingRight |-> IF ScrollbarShown(pg, body) THEN "15px"
                            ELSE body.paddingRight ]
  ELSE [overflow |-> "", paddingRight |-> ""]

\* The ref callback called with the element: it runs only when the sheet
\* holds no observer, creates one and checks data-state once.
RefAttach(pg, sh, body) ==
  IF sh.observer THEN [sheet |-> sh, body |-> body]
  ELSE [ sheet |-> [sh EXCEPT !.observer = TRUE],
         body |-> lockBodyScroll(pg, body, sh.dataState = "open") ]

\* The ref callback called with null.
RefDetach(pg, sh, body) ==
  IF ~sh.observer THEN [sheet |-> sh, body |-> body]
  ELSE [ sheet |-> [sh EXCEPT !.observer = FALSE],
         body |-> lockBodyScroll(pg, body, FALSE) ]

\* The observer's callback after data-state changed; a disconnected
\* observer is not called.
Observed(pg, sh, body) ==
  IF sh.observer THEN lockBodyScroll(pg, body, sh.dataState = "open")
  ELSE body

NoSheet(body) ==
  [mounted |-> FALSE, dataState |-> "closed", observer |-> FALSE,
   before |-> body]

InitPage ==
  /\ \E body \in BodyStyles, bar \in BOOLEAN :
       page = [ mounted |-> TRUE, body |-> body, scrollbar |-> bar,
                sheets |-> [s \in SheetIds |-> NoSheet(body)] ]
  /\ event = [kind |-> "mount"]
  /\ host = NotRendered
  /\ ctx = NotRendered
  /\ tree = NotRendered
  /\ field = NotRendered

\* The page after sheet s and the body became sh and body in a step.
PageWith(s, sh, body, kind) ==
  /\ page' = [page EXCEPT !.sheets[s] = sh, !.body = body]
  /\ event' = [kind |-> kind, sheet |-> s]
  /\ UNCHANGED <<host, ctx, tree, field>>

\* The dialog opens: its content mounts with data-state "open", or content
\* that is still mounted closed gets data-state "open" again.  `before`
\* remembers the body style the sheet found.
SheetOpen(s) ==
  LET sh == page.sheets[s]
      opened == [sh EXCEPT !.mounted = TRUE, !.dataState = "open",
                           !.before = page.body]
  IN /\ ~(sh.mounted /\ sh.dataState = "open")
     /\ IF sh.mounted
          THEN PageWith(s, opened, Observed(page, opened, page.body), "open")
          ELSE LET r == RefAttach(page, opened, page.body)
               IN PageWith(s, r.sheet, r.body, "open")

\* The dialog closes: data-state becomes "closed" while the content stays
\* mounted for its exit animation.
SheetClose(s) ==
  LET sh == page.sheets[s]
      closed == [sh EXCEPT !.dataState = "closed"]
  IN /\ sh.mounted /\ sh.dataState = "open"
     /\ PageWith(s, closed, Observed(page, closed, page.body), "close")

\* The content unmounts: the ref is called with null, then the effect's
\* cleanup disconnects what is left and unlocks the body.
SheetUnmount(s) ==
  LET sh == page.sheets[s]
      r == RefDetach(page, sh, page.body)
  IN /\ sh.mounted
     /\ PageWith(s, [r.sheet EXCEPT !.mounted = FALSE, !.observer = FALSE,
                                    !.dataState = "closed"],
                 lockBodyScroll(page, r.body, FALSE), "unmount")

\* BottomSheetContent renders again: the ref callback is a new function, so
\* React calls the old one with null and the new one with the element.
SheetRerender(s) ==
  LET sh == page.sheets[s]
      d == RefDetach(page, sh, page.body)
      a == RefAttach(page, d.sheet, d.body)
  IN /\ sh.mounted
     /\ PageWith(s, a.sheet, a.body, "render")

NextPage ==
  \/ \E s \in SheetIds : SheetOpen(s)
  \/ \E s \in SheetIds : SheetClose(s)
  \/ \E s \in SheetIds : SheetUnmount(s)
  \/ \E s \in SheetIds : SheetRerender(s)

SpecPage == InitPage /\ [][NextPage]_vars

\* ------------------------------------------------------------------ claims
\* What the last render shows of the items and of the panels.
ItemStates == [i \in ItemIds |-> tree.items[i].dataState]
PublishedStates == [i \in ItemIds |-> tree.items[i].state]
PanelsShown == {j \in PanelIds : tree.panels[j].tag # "null"}
PanelsMatching == {j \in PanelIds : host.panels[j] = ctx.value}

\* The arguments of the onValueChange calls among calls, in order.
RECURSIVE ValueChanges(_)
ValueChanges(calls) ==
  IF calls = <<>> THEN <<>>
  ELSE IF Head(calls)[1] = "onValueChange"
    THEN <<Head(calls)[2]>> \o ValueChanges(Tail(calls))
  ELSE ValueChanges(Tail(calls))

\* C1: an item with step s under a Stepper with value v is active iff s = v,
\* completed iff s < v and inactive iff s > v, so exactly one of the three;
\* under value 2 the items 1, 2, 3, 4 are completed, active, inactive,
\* inactive.
C1_DerivedState ==
  /\ \A i \in ItemIds :
       LET item == tree.items[i] IN
       /\ item.dataState \in {"active", "completed", "inactive"}
       /\ item.state = item.dataState
       /\ (item.dataState = "active") <=> (item.step = ctx.value)
       /\ (item.dataState = "completed") <=> (item.step < ctx.value)
       /\ (item.dataState = "inactive") <=> (item.step > ctx.value)
  /\ ctx.value = 2 =>
       \A i \in ItemIds :
         i <= 4 => ItemStates[i] = <<"completed", "active", "inactive", "inactive">>[i]

\* The scenario of C1: value 2 rendered over the steps 1 to 4.
C1_Witness ==
  /\ event.kind = "render"
  /\ ctx.value = 2
  /\ \A i \in 1 .. 4 : i \in ItemIds /\ tree.items[i].step = i
  /\ <<ItemStates[1], ItemStates[2], ItemStates[3], ItemStates[4]>>
       = <<"completed", "active", "inactive", "inactive">>

\* C2: while clickable is false, a click on the trigger of any item, with
\* any props on the trigger, makes no onValueChange call, throws nothing and
\* leaves every item's derived state as it was.
C2_ActivationGating ==
  [][ (event'.kind = "click" /\ ~Truthy(ctx.clickable)) =>
        /\ ValueChanges(event'.calls) = <<>>
        /\ ~event'.threw
        /\ ItemStates' = ItemStates
        /\ PublishedStates' = PublishedStates
        /\ host'.currentStep = host.currentStep ]_vars

\* A click that reached the handler although clickable is false (the caller
\* passed disabled={false}), on an item other than the current one, with an
\* onValueChange to call.
C2_Witness ==
  /\ event.kind = "click"
  /\ ~Truthy(ctx.clickable)
  /\ event.delivered
  /\ event.target \in ItemIds
  /\ tree.items[event.target].step # ctx.value
  /\ ctx.onValueChange = "setCurrentStep"
  /\ event.trigger.onClick # Unset

\* The click of the last step landed on the trigger of item k while the
\* Stepper was clickable.
ClickedWhileClickable(k) ==
  /\ event.kind = "click"
  /\ event.target = k
  /\ Truthy(ctx.clickable)

\* The trigger of the last click was rendered as a button that is not
\* disabled: asChild was not set and the caller passed no disabled={true}.
EnabledButton ==
  /\ ~Truthy(event.trigger.asChild)
  /\ ~Truthy(event.trigger.disabled)

\* C3 as stated: with clickable true, one click on the trigger of an item
\* with step k makes exactly one call onValueChange(k).  The claim names the
\* host's onValueChange, so it is read for a Stepper that was given one.
C3_AsStated ==
  \A k \in ItemIds :
    (ClickedWhileClickable(k) /\ ctx.onValueChange # Unset) =>
      ValueChanges(event.calls) = <<tree.items[k].step>>

\* C3, amended: with clickable true and an onValueChange passed to the
\* Stepper, one click on the trigger of an item with step k, the trigger
\* being a button that is not disabled, makes exactly one call
\* onValueChange(k): k is the step of the clicked item, and the call reaches
\* the host once.
C3_ActivationCorrectness ==
  \A k \in ItemIds :
    (ClickedWhileClickable(k) /\ EnabledButton /\ ctx.onValueChange # Unset) =>
      /\ ValueChanges(event.calls) = <<tree.items[k].step>>
      /\ event.delivered
      /\ ~event.threw

\* An accepted click on an item that is not the current one.
C3_Witness ==
  \E k \in ItemIds :
    /\ ClickedWhileClickable(k)
    /\ EnabledButton
    /\ ctx.onValueChange = "action"
    /\ tree.items[k].step # ctx.value
    /\ ValueChanges(event.calls) = <<tree.items[k].step>>

\* C4: no stepper component writes the value.  A click, accepted or not,
\* leaves the distributed context, every item's state and every panel as
\* they were; the distributed value changes only in a render, to the value
\* the host passes then; item states and panels change only when the
\* distributed value does; and a host that does not feed onValueChange back
\* keeps its value through every click.
C4_ValueOwnedByHost ==
  [][ /\ event'.kind = "click" =>
           /\ ctx' = ctx
           /\ ItemStates' = ItemStates
           /\ PanelsShown' = PanelsShown
      /\ ctx'.value # ctx.value =>
           /\ event'.kind \in {"render", "flush"}
           /\ ctx'.value = host'.currentStep
      /\ (ItemStates' # ItemStates \/ PanelsShown' # PanelsShown) =>
           ctx'.value # ctx.value
      /\ (event'.kind = "click" /\ host.onValueChange # "setCurrentStep") =>
           host'.currentStep = host.currentStep ]_vars

\* An accepted click whose call the host only recorded: the value in the
\* context is the one from before the click and no render is pending.
C4_Witness ==
  /\ event.kind = "click"
  /\ host.onValueChange = "action"
  /\ ValueChanges(event.calls) # <<>>
  /\ ValueChanges(event.calls)[1] # ctx.value
  /\ ~Dirty

\* Item k is active, the items before it completed, those after it inactive.
ActiveAt(k) ==
  \A i \in ItemIds :
    ItemStates[i] = IF tree.items[i].step = tree.items[k].step THEN "active"
                    ELSE IF tree.items[i].step < tree.items[k].step THEN "completed"
                    ELSE "inactive"

\* C5 as stated: with a host that feeds every onValueChange(k) back as the
\* next value and clickable true, a click on the trigger of step k is
\* eventually followed by a render in which item k is active.
C5_AsStated ==
  \A k \in ItemIds :
    (ClickedWhileClickable(k) /\ host.onValueChange = "setCurrentStep")
      ~> ActiveAt(k)

\* C5, amended: with a host that feeds every onValueChange(k) back as the
\* next value and clickable true, a click on the trigger of step k, the
\* trigger being a button that is not disabled, is eventually followed by a
\* render in which item k is active, the items before it completed and the
\* items after it inactive.
C5_FeedbackLiveness ==
  \A k \in ItemIds :
    (ClickedWhileClickable(k) /\ EnabledButton
       /\ host.onValueChange = "setCurrentStep")
      ~> ActiveAt(k)

\* The render that follows an accepted click shows the clicked step active.
C5_Witness ==
  /\ event.kind = "flush"
  /\ \E k \in ItemIds : ctx.value = tree.items[k].step /\ ActiveAt(k)
  /\ \E i \in ItemIds : ItemStates[i] = "completed"
  /\ \E i \in ItemIds : ItemStates[i] = "inactive"

\* C6 as stated: exactly one panel renders its children, the one whose value
\* equals the Stepper value; none if no panel matches.
C6_AsStated ==
  IF PanelsMatching = {} THEN PanelsShown = {}
  ELSE Cardinality(PanelsShown) = 1 /\ PanelsShown \subseteq PanelsMatching

\* C6, amended: the panels that render their children are exactly those
\* whose value prop equals the Stepper value: none if no panel matches, one
\* if the panels' values are distinct, and every one of them if several
\* panels name the same step.
C6_PanelExclusivity ==
  /\ PanelsShown = PanelsMatching
  /\ PanelsMatching = {} => PanelsShown = {}
  /\ (\A a, b \in PanelIds : a # b => host.panels[a] # host.panels[b]) =>
       Cardinality(PanelsShown) <= 1

\* Panels with distinct values, one of which matches and is the only one
\* shown.
C6_Witness ==
  /\ event.kind = "render"
  /\ \A a, b \in PanelIds : a # b => host.panels[a] # host.panels[b]
  /\ Cardinality(PanelsShown) = 1
  /\ Cardinality(PanelsMatching) = 1
  /\ Cardinality(PanelIds) > 1

\* C7: a panel with value s under a Stepper with value v renders its children
\* iff s = v and otherwise renders null, no element at all; this is decided
\* again in every render, so a panel that stops matching is unmounted.
C7_PanelRender ==
  \A j \in PanelIds :
    tree.panels[j] = IF host.panels[j] = host.currentStep
                       THEN [tag |-> "div", children |-> "children"]
                       ELSE NullElement

\* After a change of value: a panel that does not match is null while another
\* one is mounted.
C7_Witness ==
  /\ event.kind = "render"
  /\ ctx.value # 2
  /\ \E j \in PanelIds : host.panels[j] # ctx.value /\ tree.panels[j] = NullElement
  /\ \E j \in PanelIds : host.panels[j] = ctx.value /\ tree.panels[j].tag = "div"

\* Whether item i shows its badge of status b.
BadgeVisible(i, b) == tree.items[i].badge[b].tag # "null"

\* C8: a badge with status success is visible iff its item is completed, with
\* warning iff active, with default (also when no status is given) iff
\* inactive, and with error or inactive never.
C8_BadgeMapping ==
  \A i \in ItemIds :
    /\ BadgeVisible(i, "success") <=> ItemStates[i] = "completed"
    /\ BadgeVisible(i, "warning") <=> ItemStates[i] = "active"
    /\ BadgeVisible(i, "default") <=> ItemStates[i] = "inactive"
    /\ BadgeVisible(i, Unset) <=> ItemStates[i] = "inactive"
    /\ ~BadgeVisible(i, "error")
    /\ ~BadgeVisible(i, "inactive")

\* One render with a completed, an active and an inactive item, each showing
\* its own badge.
C8_Witness ==
  \E a, b, c \in ItemIds :
    /\ event.kind = "render"
    /\ ItemStates[a] = "completed" /\ BadgeVisible(a, "success")
    /\ ItemStates[b] = "active" /\ BadgeVisible(b, "warning")
    /\ ItemStates[c] = "inactive" /\ BadgeVisible(c, "default")
    /\ BadgeVisible(c, Unset) /\ ~BadgeVisible(c, "inactive")

\* What the indicator of item i with loading flag l shows.
IndicatorShows(i, l) == tree.items[i].indicator[l].el.content

\* The host passed an element for the loading, the completed override.
LoadingOverrideGiven ==
  host.indicators.given /\ host.indicators.loading = "loadingIcon"
CompletedOverrideGiven ==
  host.indicators.given /\ host.indicators.completed = "completedIcon"

\* C9: the indicator shows the loading override if its loading flag is set
\* and indicators.loading exists; otherwise the completed override if the
\* item is completed and indicators.completed exists; otherwise its children.
\* With indicators.completed given, step 1 under value 3 shows the override.
C9_IndicatorContent ==
  /\ \A i \in ItemIds, l \in LoadingFlags :
       IndicatorShows(i, l) =
         IF l = JsTrue /\ LoadingOverrideGiven THEN "loadingIcon"
         ELSE IF ItemStates[i] = "completed" /\ CompletedOverrideGiven
           THEN "completedIcon"
         ELSE "children"
  /\ (ctx.value = 3 /\ CompletedOverrideGiven) =>
       IndicatorShows(1, Unset) = "completedIcon"

\* Both overrides given and a completed item: the indicator that is loading
\* shows the loading override, the one that is not shows the completed one
\* (step 1 under value 3), and an item that is not completed shows its
\* children.
C9_Witness ==
  /\ ctx.value = 3
  /\ CompletedOverrideGiven
  /\ LoadingOverrideGiven
  /\ tree.items[1].step = 1
  /\ IndicatorShows(1, Unset) = "completedIcon"
  /\ IndicatorShows(1, JsTrue) = "loadingIcon"
  /\ IndicatorShows(3, JsFalse) = "children"

\* C10: a separator renders an element iff the Stepper's showConnector is
\* true (it is when the prop is not passed); with showConnector false every
\* separator renders null, whatever the item's state, the size, the
\* orientation and the completedColor.
C10_SeparatorGating ==
  \A i \in ItemIds :
    /\ (tree.items[i].separator.el # NullElement) <=> (host.showConnector # JsFalse)
    /\ host.showConnector = JsFalse => tree.items[i].separator.el = NullElement
    /\ host.showConnector # JsFalse => tree.items[i].separator.el.tag = "div"

\* showConnector false over completed, active and inactive items, in a
\* vertical, large, orange stepper: no separator.
C10_Witness ==
  /\ host.showConnector = JsFalse
  /\ ctx.variant = "vertical" /\ ctx.size = "lg" /\ ctx.completedColor = "orange"
  /\ \E i \in ItemIds : ItemStates[i] = "completed"
  /\ \E i \in ItemIds : ItemStates[i] = "active"
  /\ \E i \in ItemIds : ItemStates[i] = "inactive"
  /\ \A i \in ItemIds : tree.items[i].separator.el = NullElement

\* The last step was a click while the Stepper was clickable and had no
\* onValueChange.
ClickWithoutCallback ==
  /\ event'.kind = "click"
  /\ Truthy(ctx.clickable)
  /\ ctx.onValueChange = Unset

\* C11 as stated: with no onValueChange and clickable true, a click on any
\* trigger invokes no callback at all, throws nothing, and leaves the
\* distributed value and every derived state as they were.
C11_AsStated ==
  [][ ClickWithoutCallback =>
        /\ event'.calls = <<>>
        /\ ~event'.threw
        /\ ctx' = ctx
        /\ ItemStates' = ItemStates
        /\ PublishedStates' = PublishedStates ]_vars

\* C11, amended: with no onValueChange and clickable true, a click on any
\* trigger makes no onValueChange call and throws nothing; the only call it
\* can make is the trigger's own onClick, when the caller passed one and the
\* click reached the button; the host's value, the distributed context and
\* every derived state stay as they were.
C11_MissingCallback ==
  [][ ClickWithoutCallback =>
        /\ ValueChanges(event'.calls) = <<>>
        /\ \A n \in 1 .. Len(event'.calls) :
              /\ event'.calls[n] = <<"onClick", "event">>
              /\ event'.trigger.onClick # Unset
              /\ event'.delivered
        /\ Len(event'.calls) <= 1
        /\ ~event'.threw
        /\ host' = host
        /\ ctx' = ctx
        /\ ItemStates' = ItemStates
        /\ PublishedStates' = PublishedStates ]_vars

\* A click that reached the handler of an item other than the current one,
\* the Stepper being clickable and without onValueChange.
C11_Witness ==
  /\ event.kind = "click"
  /\ Truthy(ctx.clickable)
  /\ ctx.onValueChange = Unset
  /\ event.delivered
  /\ event.target \in ItemIds
  /\ tree.items[event.target].step # ctx.value
  /\ event.trigger.onClick = Unset
  /\ event.calls = <<>>

\* The last click was accepted: it reached the handler of a trigger inside
\* an item while the Stepper was clickable and had an onValueChange.
AcceptedClick ==
  /\ event.kind = "click"
  /\ event.delivered
  /\ Truthy(ctx.clickable)
  /\ event.target \in ItemIds
  /\ ctx.onValueChange # Unset

\* The calls among calls that are not onValueChange calls, in order.
OtherCalls(calls) == SelectSeq(calls, LAMBDA call : call[1] # "onValueChange")

\* C12 as stated: an accepted click makes the one call onValueChange(step)
\* and no other call; a click that is not accepted makes no call.
C12_AsStated ==
  event.kind = "click" =>
    event.calls = IF AcceptedClick
                    THEN << <<"onValueChange", tree.items[event.target].step>> >>
                    ELSE <<>>

\* C12, amended: the only call a click makes on the Stepper's own props is
\* onValueChange(step), once for an accepted click and never for another;
\* besides it the handler calls the trigger's own onClick, once for every
\* click that reaches the button, accepted or not, when the caller passed
\* one; it makes no other call.
C12_SingleSignal ==
  event.kind = "click" =>
    /\ ValueChanges(event.calls) =
          IF AcceptedClick THEN <<tree.items[event.target].step>> ELSE <<>>
    /\ OtherCalls(event.calls) =
          IF event.delivered /\ event.trigger.onClick # Unset
            THEN << <<"onClick", "event">> >> ELSE <<>>
    /\ Len(event.calls) = Len(ValueChanges(event.calls))
                            + Len(OtherCalls(event.calls))

\* An accepted click on a trigger that has its own onClick: the handler
\* calls onValueChange, then onClick.
C12_Witness ==
  /\ AcceptedClick
  /\ event.trigger.onClick # Unset
  /\ event.calls = << <<"onValueChange", tree.items[event.target].step>>,
                      <<"onClick", "event">> >>

\* C13: under one value the item states are monotone in the step number:
\* of two items with steps a < b, a is never inactive while b is completed
\* or active, and a is never active while b is completed.
C13_OrderInvariant ==
  \A a, b \in ItemIds :
    tree.items[a].step < tree.items[b].step =>
      /\ ~(ItemStates[a] = "inactive" /\ ItemStates[b] = "completed")
      /\ ~(ItemStates[a] = "inactive" /\ ItemStates[b] = "active")
      /\ ~(ItemStates[a] = "active" /\ ItemStates[b] = "completed")

\* Three items in the three states, the one with the lowest step standing
\* after the one with the middle step.
C13_Witness ==
  \E a, b, c \in ItemIds :
    /\ tree.items[a].step < tree.items[b].step
    /\ tree.items[b].step < tree.items[c].step
    /\ b < a
    /\ ItemStates[a] = "completed"
    /\ ItemStates[b] = "active"
    /\ ItemStates[c] = "inactive"

\* The props of the last render, totalSteps replaced by t.
RenderedPropsWith(t) ==
  [host EXCEPT !.totalSteps = t, !.currentStep = ctx.value]

\* C14: totalSteps is advisory.  Whatever totalSteps the host passes instead
\* (none included), the distributed context is the same but for the
\* totalSteps field, the whole rendered tree (item states, published
\* contexts, indicators, badges, separators, panels) is the same, and a click
\* renders the same trigger and makes the same calls; the distributed value
\* is the value the host passed, inside 1 .. totalSteps or not, and each item
\* is classified by comparing its step with that value.
C14_TotalStepsAdvisory ==
  /\ \A t \in TotalStepsChoices :
       LET twin == Stepper(RenderedPropsWith(t))
       IN /\ [ctx EXCEPT !.totalSteps = t] = twin
          /\ tree = RenderTree(twin, RenderedPropsWith(t), MountTree)
          /\ event.kind = "click" =>
               LET sc == IF event.target \in ItemIds
                           THEN StepContext(tree.items[event.target])
                           ELSE NoStepContext
                   el == StepperTrigger(twin, sc, event.trigger)
                   r == IF Delivered(el)
                          THEN handleClick(twin, sc, event.trigger)
                          ELSE NoCall
               IN /\ el = event.element
                  /\ r.calls = event.calls
                  /\ r.threw = event.threw
  /\ ~Dirty => ctx.value = host.currentStep
  /\ \A i \in ItemIds :
       ItemStates[i] = IF host.steps[i] = ctx.value THEN "active"
                       ELSE IF host.steps[i] < ctx.value THEN "completed"
                       ELSE "inactive"

\* With totalSteps 2 the host passed a value above it, and a click on an
\* item whose step is above it too was accepted and reported.
C14_Witness ==
  /\ host.totalSteps.given
  /\ ctx.value > host.totalSteps.n
  /\ AcceptedClick
  /\ tree.items[event.target].step > host.totalSteps.n
  /\ tree.items[event.target].step # ctx.value
  /\ ValueChanges(event.calls) = <<tree.items[event.target].step>>
  /\ \E i \in ItemIds : ItemStates[i] = "active"

\* What a press on the trigger of the last event would have done.
PressOnSameTrigger ==
  LET sc == IF event.target \in ItemIds
              THEN StepContext(tree.items[event.target]) ELSE NoStepContext
  IN IF Delivered(StepperTrigger(ctx, sc, event.trigger))
       THEN handleClick(ctx, sc, event.trigger) ELSE NoCall

\* C15 as stated: a key activation of a trigger makes the onValueChange
\* calls a press would, which is one call onValueChange(step) when clickable
\* is true and none when it is false.  The counts are read for a trigger
\* inside an item of a Stepper that was given an onValueChange.
C15_AsStated ==
  (event.kind = "key" /\ event.target \in ItemIds /\ ctx.onValueChange # Unset) =>
    /\ ValueChanges(event.calls) = ValueChanges(PressOnSameTrigger.calls)
    /\ ValueChanges(event.calls) =
          IF Truthy(ctx.clickable) THEN <<tree.items[event.target].step>>
          ELSE <<>>

\* C15, amended: for every configuration a key activation of a trigger
\* makes exactly the calls a press on it would; that is one call
\* onValueChange(step) when clickable is true, the Stepper has an
\* onValueChange and the trigger stands in an item as a button that is not
\* disabled, and no onValueChange call when clickable is false.
C15_KeyboardEquivalence ==
  event.kind = "key" =>
    /\ event.calls = PressOnSameTrigger.calls
    /\ event.threw = PressOnSameTrigger.threw
    /\ (/\ Truthy(ctx.clickable)
        /\ event.target \in ItemIds
        /\ ctx.onValueChange # Unset
        /\ EnabledButton)
         => ValueChanges(event.calls) = <<tree.items[event.target].step>>
    /\ ~Truthy(ctx.clickable) => ValueChanges(event.calls) = <<>>

\* Space pressed on the enabled trigger of an item other than the current
\* one, reported to the host.
C15_Witness ==
  /\ event.kind = "key"
  /\ event.key = "Space"
  /\ event.delivered
  /\ Truthy(ctx.clickable)
  /\ event.target \in ItemIds
  /\ tree.items[event.target].step # ctx.value
  /\ ValueChanges(event.calls) = <<tree.items[event.target].step>>

\* The hooks the separator of item i ran in the last render.
SeparatorHooks == [i \in ItemIds |-> tree.items[i].separator.hooks]

\* C16 as stated: the stepper components raise no error under any sequence
\* of renders and prop changes, in that a mounted StepperSeparator runs the
\* same sequence of hooks in each of its renders, showConnector switching
\* or not.
C16_AsStated ==
  [][ \A i \in ItemIds : SeparatorHooks'[i] = SeparatorHooks[i] ]_vars

\* C17: after any sequence of changes of the Stepper's value and of an
\* item's step, and of renders that change neither, what the item publishes
\* (its data-state and its context { state, step }) is the state derived
\* from the step and the value of the last render: active if they are
\* equal, completed if the step is lower, inactive otherwise.
C17_MemoNeverStale ==
  \A i \in ItemIds :
    LET step == host.steps[i]
        value == host.currentStep
        derived == IF step = value THEN "active"
                   ELSE IF step < value THEN "completed"
                   ELSE "inactive"
    IN /\ ctx.value = value
       /\ tree.items[i].dataState = derived
       /\ StepContext(tree.items[i]) =
            [isNull |-> FALSE, state |-> derived, step |-> step]

\* An item that was given another step and became the active one, under a
\* value that is not the one the Stepper was mounted with.
C17_Witness ==
  /\ event.kind = "render"
  /\ host.currentStep # 2
  /\ \E i \in ItemIds :
       /\ host.steps[i] # i
       /\ host.steps[i] = host.currentStep
       /\ tree.items[i].dataState = "active"

\* The orientation the separators of the last render were drawn in.
SeparatorVariants ==
  {tree.items[i].separator.el.variant :
     i \in {k \in ItemIds : tree.items[k].separator.el.tag # "null"}}

\* C18 as stated: the Stepper and its descendants keep the orientation of
\* the mount, horizontal here, in every later render, whatever the host
\* passes.
C18_AsStated ==
  /\ ctx.variant = "horizontal"
  /\ SeparatorVariants \subseteq {"horizontal"}

\* C18, amended: the orientation distributed in a render is the variant the
\* host passes in that render, horizontal when it passes none, and every
\* descendant drawn in that render observes it; it is not fixed at mount.
C18_OrientationFollowsProp ==
  /\ ctx.variant = IF host.variant = Unset THEN "horizontal" ELSE host.variant
  /\ SeparatorVariants \subseteq {ctx.variant}

\* A Stepper mounted horizontal and rendered again vertical, separators
\* included.
C18_Witness ==
  /\ event.kind = "render"
  /\ host.variant = "vertical"
  /\ ctx.variant = "vertical"
  /\ SeparatorVariants = {"vertical"}

\* The last step was a click in a Stepper rendered without the clickable
\* prop.
ClickWithoutClickableProp ==
  /\ event.kind = "click"
  /\ host.clickable = Unset

\* C19 as stated: in a Stepper rendered without clickable every trigger is
\* disabled and no click makes an onValueChange call.
C19_AsStated ==
  ClickWithoutClickableProp =>
    /\ Truthy(event.element.disabled)
    /\ ValueChanges(event.calls) = <<>>

\* C19, amended: a Stepper rendered without clickable distributes the
\* context of clickable=false, and a click on any trigger renders the
\* element and makes the calls it would with clickable=false: no
\* onValueChange call, given an onValueChange or not, and a trigger that is
\* a disabled button unless the caller gave it asChild or a disabled prop of
\* its own.
C19_DefaultNotClickable ==
  host.clickable = Unset =>
    LET explicit == Stepper([host EXCEPT !.clickable = JsFalse,
                                         !.currentStep = ctx.value])
    IN /\ ctx = explicit
       /\ event.kind = "click" =>
            LET sc == IF event.target \in ItemIds
                        THEN StepContext(tree.items[event.target])
                        ELSE NoStepContext
                el == StepperTrigger(explicit, sc, event.trigger)
            IN /\ event.element = el
               /\ event.calls = IF Delivered(el)
                                  THEN handleClick(explicit, sc, event.trigger).calls
                                  ELSE <<>>
               /\ ValueChanges(event.calls) = <<>>
               /\ (~Truthy(event.trigger.asChild) /\ event.trigger.disabled = Unset)
                    => /\ event.element.tag = "button"
                       /\ event.element.disabled = JsTrue
                       /\ ~event.delivered

\* A click on a plain trigger of an item other than the current one, in a
\* Stepper that has an onValueChange and was rendered without clickable.
C19_Witness ==
  /\ ClickWithoutClickableProp
  /\ ctx.onValueChange = "setCurrentStep"
  /\ event.target \in ItemIds
  /\ tree.items[event.target].step # ctx.value
  /\ ~Truthy(event.trigger.asChild)
  /\ event.trigger.disabled = Unset
  /\ event.element.disabled = JsTrue
  /\ event.calls = <<>>

\* C20: a click on the trigger inside a StepperItem that was given
\* disabled=true makes no onValueChange call, clickable or not.
C20_DisabledItem ==
  (event.kind = "click" /\ Truthy(event.item.disabled)) =>
    ValueChanges(event.calls) = <<>>

\* C26: a trigger rendered with asChild is an inert wrapper: the element has
\* no click handler, so a click on it reaches no handler and makes no call,
\* neither onValueChange nor the caller's onClick, whatever clickable is.
C26_AsChildInert ==
  (event.kind = "click" /\ Truthy(event.trigger.asChild)) =>
    /\ event.element.tag = "div"
    /\ event.element.onClick = Unset
    /\ ~event.delivered
    /\ event.calls = <<>>
    /\ ~event.threw
    /\ host.currentStep = ctx.value

\* A click on an asChild trigger that has an onClick, in an item other than
\* the current one of a clickable Stepper with an onValueChange.
C26_Witness ==
  /\ event.kind = "click"
  /\ Truthy(event.trigger.asChild)
  /\ event.trigger.onClick # Unset
  /\ Truthy(ctx.clickable)
  /\ ctx.onValueChange = "setCurrentStep"
  /\ event.target \in ItemIds
  /\ tree.items[event.target].step # ctx.value
  /\ event.calls = <<>>

\* C27: every click that reaches the button calls the caller's onClick,
\* once and last, whatever clickable, the item context and onValueChange
\* are; an accepted click calls onValueChange(step) first and onClick after
\* it.
C27_OnClickAlwaysLast ==
  (event.kind = "click" /\ event.delivered /\ event.trigger.onClick # Unset) =>
    /\ OtherCalls(event.calls) = << <<"onClick", "event">> >>
    /\ event.calls[Len(event.calls)] = <<"onClick", "event">>
    /\ AcceptedClick =>
         event.calls = << <<"onValueChange", tree.items[event.target].step>>,
                          <<"onClick", "event">> >>
    /\ ~AcceptedClick => event.calls = << <<"onClick", "event">> >>

\* An accepted click whose onValueChange only records, followed by the
\* caller's onClick; the host's value stays.
C27_Witness ==
  /\ AcceptedClick
  /\ ctx.onValueChange = "action"
  /\ event.trigger.onClick # Unset
  /\ tree.items[event.target].step # ctx.value
  /\ Len(event.calls) = 2
  /\ event.calls[1][1] = "onValueChange"
  /\ event.calls[2][1] = "onClick"

\* C21 as stated: a change event of an Input or Textarea first sets
\* hasValue to whether the new text is non-empty and then calls the
\* caller's onChange if there is one, so that hasValue tells whether the
\* field has text; with an onChange prop as without.
C21_ChangeSetsHasValue ==
  event.kind = "change" =>
    /\ event.calls =
         << <<"setHasValue", JsBool(event.text # "")>> >>
           \o (IF field.props.onChange = Unset THEN <<>>
               ELSE << <<"onChange", event.text>> >>)
    /\ field.hasValue = (event.text # "")

\* C22: a focus event of a Textarea sets isFocused to true and then calls
\* the caller's onFocus, a blur event sets it to false and then calls the
\* caller's onBlur, so that the label floats in every state in which the
\* textarea has the focus; with onFocus and onBlur props as without.
C22_LabelFloatsWhileFocused ==
  field.kind = "textarea" =>
    /\ event.kind = "focus" =>
         event.calls = << <<"setIsFocused", JsTrue>> >>
                         \o (IF field.props.onFocus = Unset THEN <<>>
                             ELSE << <<"onFocus", "event">> >>)
    /\ event.kind = "blur" =>
         event.calls = << <<"setIsFocused", JsFalse>> >>
                         \o (IF field.props.onBlur = Unset THEN <<>>
                             ELSE << <<"onBlur", "event">> >>)
    /\ field.focused => field.el.labelFloating

\* The element carries the component's own three handlers.
OwnHandlers ==
  /\ field.el.onFocus = "handleFocus"
  /\ field.el.onBlur = "handleBlur"
  /\ field.el.onChange = "handleChange"

C23_BodyLockedWhileOpen ==
  (\E s \in SheetIds :
     page.sheets[s].mounted /\ page.sheets[s].dataState = "open")
    => page.body.overflow = "hidden"

\* C24: after a sheet closed or unmounted, the body's overflow and
\* padding-right are what they were before that sheet opened, and the
\* observer of a sheet that unmounted is disconnected.
C24_BodyRestored ==
  event.kind \in {"close", "unmount"} =>
    /\ page.body = page.sheets[event.sheet].before
    /\ event.kind = "unmount" => ~page.sheets[event.sheet].observer

====
